---- MODULE Spec2Model ----
(***************************************************************************)
(* A model of the gomqtt broker: the MemoryBackend of backend.go (session  *)
(* registry, subscription queue, retained store, offline queue) driven by  *)
(* remote clients that follow the connection state machine of the design.  *)
(*                                                                         *)
(* Setup and Terminate run under sessionsMutex and are one step each.      *)
(* Publish holds no lock: it is two steps, the retained update with the    *)
(* delivery to the online subscribers (backend.go:219-232) and the         *)
(* queueing for the offline sessions (backend.go:235-239), so that Setup   *)
(* and Terminate of other clients interleave between them.  The goroutine  *)
(* that Setup starts to forward the missed messages is a step of its own.  *)
(***************************************************************************)
EXTENDS Integers, Sequences, FiniteSets, TLC

\* ---------------------------------------------------------------- bounds
NumClients == 2     \* connections accepted by the broker
MaxPublishes == 2   \* messages created (PUBLISH packets and Wills)
MaxSubscribes == 2  \* SUBSCRIBE packets handled
MaxDuplicates == 1  \* repetitions of one QoS 2 PUBLISH on a connection

\* ------------------------------------------------------------ value sets
ClientNames == <<"c1", "c2", "c3", "c4", "c5">>
Clients == {ClientNames[i] : i \in 1..NumClients}
Publisher == "p"                \* one more connection, which only publishes
Peers == Clients \cup {Publisher}
None == "none"
Anonymous == ""                 \* the zero-length client id
IDs == {"a"}                    \* the non-empty client ids
QoSLevels == {0, 1, 2}
Topics == {<<"foo", "bar">>, <<"test">>}
Filters == {<<"foo", "bar">>, <<"foo", "+">>, <<"#">>}
SessionRefs == IDs \cup Peers   \* a stored session is named by its id,
                                \* a temporary one by the client that got it
PacketIDs == {1, 2}             \* the packet ids a client gives its PUBLISH

VARIABLES
    sessions,      \* m.sessions: the ids that have a stored session
    currentClient, \* session -> the client attached to it, or None
    subscriptions, \* session -> set of [topic, qos]
    missed,        \* session -> sequence of messages queued while offline
    queue,         \* m.queue: set of <<filter, client>>
    offlineQueue,  \* m.offlineQueue: set of <<filter, session>>
    retained,      \* m.retained: set of messages, at most one per topic
    ctxClean,      \* client.Context()["clean"]
    ctxSession,    \* client.Context()["session"], or None
    state,         \* client: "new", "connected", "closed", "done"
    will,          \* client: <<>> or <<message>>
    inbox,         \* client: the messages its Publish method was given
    pending,       \* client: <<>> or <<message>> of a Publish between its steps
    replay,        \* set of <<session, client>>: started replay goroutines
    clientID,      \* client: the id of its CONNECT
    resumed,       \* client: the second result of its Setup
    sessionPresent,\* client: the flag of its CONNACK
    evicted,       \* clients closed by the Setup of another client
    suppressed,    \* evicted clients that held a Will when they were closed
    pubs,          \* every message given to Backend.Publish, in call order
    created,       \* number of messages created so far
    subscribed,    \* number of SUBSCRIBE packets handled so far
    outgoing,      \* session -> sequence of packets sent and not acknowledged
    incoming,      \* session -> set of QoS 2 packets received and not released
    packetIdCounter,\* session -> where NextID starts to look for a free id
    wire,          \* client: the QoS packets exchanged with it, in order
    dropped,       \* client: the messages its clean Setup removed from missed
    Logins         \* m.Logins: <<>> when nil, else <<the map from user to password>>

vars == <<sessions, currentClient, subscriptions, missed, queue, offlineQueue,
          retained, ctxClean, ctxSession, state, will, inbox, pending, replay,
          clientID, resumed, sessionPresent, evicted, suppressed, pubs, created,
          subscribed, outgoing, incoming, packetIdCounter, wire, dropped, Logins>>

\* ------------------------------------------------------------ topic tree
\* A filter level "+" matches one level, "#" the remaining levels.
RECURSIVE FilterMatches(_, _)
FilterMatches(f, t) ==
    IF f = <<>> THEN t = <<>>
    ELSE IF Head(f) = "#" THEN TRUE
    ELSE IF t = <<>> THEN FALSE
    ELSE IF Head(f) = "+" \/ Head(f) = Head(t) THEN FilterMatches(Tail(f), Tail(t))
    ELSE FALSE

\* Tree.Match(topic): the values stored under the filters that match topic.
Match(tree, topic) == {e[2] : e \in {x \in tree : FilterMatches(x[1], topic)}}

\* Tree.Search(filter): the retained messages whose topic the filter matches.
Search(store, filter) == {m \in store : FilterMatches(filter, m.topic)}

\* Tree.Clear(value): the value is removed from every node.
Clear(tree, v) == {e \in tree : e[2] # v}

\* Tree.Set(topic, msg) and Tree.Empty(topic) of the retained store.
Set(store, msg) == {m \in store : m.topic # msg.topic} \cup {msg}
Empty(store, topic) == {m \in store : m.topic # topic}

\* ---------------------------------------------------------------- session
Min(a, b) == IF a < b THEN a ELSE b

\* changed: the subscription is added next to the one stored for the filter
SaveSubscriptionAdd(subs, f, q) == subs \cup {[topic |-> f, qos |-> q]}

\* SaveSubscription: one entry per filter, the latest one.
SaveSubscription(subs, f, q) ==
    {s \in subs : s.topic # f} \cup {[topic |-> f, qos |-> q]}

DeleteSubscription(subs, f) == {s \in subs : s.topic # f}

\* changed: the lowest QoS among the filters matching the topic
LookupSubscriptionLowest(subs, topic) ==
    LET qs == {s.qos : s \in {x \in subs : FilterMatches(x.topic, topic)}}
    IN  {q \in qs : \A r \in qs : q <= r}

\* LookupSubscription: the highest QoS among the filters matching the topic,
\* as a set that is empty when no filter matches.
LookupSubscription(subs, topic) ==
    LET qs == {s.qos : s \in {x \in subs : FilterMatches(x.topic, topic)}}
    IN  {q \in qs : \A r \in qs : r <= q}

\* the largest packet id; 0 is reserved
MaxPacketID == 65535

\* a PUBLISH with its packet id (0 at QoS 0) and DUP flag, and the packets
\* of the acknowledgement handshakes, which carry an id only
PublishPacket(id, dup, m) ==
    [to |-> "client", type |-> "publish", id |-> id, dup |-> dup, msg |-> <<m>>]
AckPacket(to, type, id) ==
    [to |-> to, type |-> type, id |-> id, dup |-> FALSE, msg |-> <<>>]

PacketIDsOf(store) == {store[i].id : i \in 1..Len(store)}

\* NextID: the smallest unused id from the counter on; when every id up to
\* MaxPacketID is in use the search goes on from 1.
NextID(ctr, used) ==
    IF ctr \notin used THEN ctr ELSE
    LET k == Cardinality(used)
        top == IF ctr + k > MaxPacketID THEN MaxPacketID ELSE ctr + k
        up == {i \in ctr..top : i \notin used}
        low == {i \in 1..(k + 1) : i \notin used}
        free == IF up # {} THEN up ELSE low
    IN  CHOOSE i \in free : \A j \in free : i <= j

\* the counter after id was handed out
AfterID(id) == IF id = MaxPacketID THEN 1 ELSE id + 1

\* SavePacket: a packet takes the place of the stored packet with its id
SavePacket(store, pkt) ==
    IF pkt.id \in PacketIDsOf(store)
    THEN [i \in 1..Len(store) |-> IF store[i].id = pkt.id THEN pkt ELSE store[i]]
    ELSE Append(store, pkt)

DeletePacket(store, id) == SelectSeq(store, LAMBDA pkt : pkt.id # id)

\* ---------------------------------------------------------- remote client
\* changed: the message is handed over at the published QoS
DowngradeNever(msg, subs) == msg

\* Outbound Publish of a client: the QoS is lowered to the subscription's.
Downgrade(msg, subs) ==
    LET look == LookupSubscription(subs, msg.topic)
    IN  IF look = {} THEN msg
        ELSE [msg EXCEPT !.qos = Min(msg.qos, CHOOSE q \in look : TRUE)]

SessionSubs(c) == IF ctxSession[c] = None THEN {} ELSE subscriptions[ctxSession[c]]

\* inbox after the Publish method of every client in targets got msg
Delivered(box, targets, msg, subsOf) ==
    [c \in Peers |->
        IF c \in targets THEN Append(box[c], Downgrade(msg, subsOf[c])) ELSE box[c]]

\* all orders in which the messages of a set can be handed over
RECURSIVE Orders(_)
Orders(S) ==
    IF S = {} THEN {<<>>}
    ELSE UNION {{<<m>> \o rest : rest \in Orders(S \ {m})} : m \in S}

RECURSIVE DeliverSeq(_, _, _)
DeliverSeq(box, msgs, subs) ==
    IF msgs = <<>> THEN box
    ELSE DeliverSeq(Append(box, Downgrade(Head(msgs), subs)), Tail(msgs), subs)

\* The packets of a client's outbound Publish.  st holds the outgoing stores,
\* the id counters and the wires; m is the message after the downgrade.  At
\* QoS 0 the PUBLISH is sent without an id; otherwise an id is allocated and
\* the PUBLISH is saved in the session before it is sent.  A connection that
\* is closed takes no packet.
SendOne(st, c, m) ==
    LET s == ctxSession[c]
        id == IF m.qos = 0 THEN 0 ELSE NextID(st.ctr[s], PacketIDsOf(st.out[s]))
        pkt == PublishPacket(id, FALSE, m)
    IN  [out |-> IF m.qos = 0 THEN st.out
                 ELSE [st.out EXCEPT ![s] = SavePacket(st.out[s], pkt)],
         ctr |-> IF m.qos = 0 THEN st.ctr ELSE [st.ctr EXCEPT ![s] = AfterID(id)],
         wire |-> IF state[c] = "connected"
                  THEN [st.wire EXCEPT ![c] = Append(st.wire[c], pkt)]
                  ELSE st.wire]

\* SendOne for every <<client, message>> of the sequence ds, in its order
RECURSIVE SendAll(_, _)
SendAll(st, ds) ==
    IF ds = <<>> THEN st
    ELSE CHOOSE r \in {SendAll(nx, Tail(ds)) :
                          nx \in {SendOne(st, Head(ds)[1], Head(ds)[2])}} : TRUE

Stores == [out |-> outgoing, ctr |-> packetIdCounter, wire |-> wire]

\* CONNECT: the packets of the outgoing store are sent again, a PUBLISH with
\* DUP set, a PUBREL as it is.
Resend(store) ==
    [i \in 1..Len(store) |->
        IF store[i].type = "publish" THEN [store[i] EXCEPT !.dup = TRUE] ELSE store[i]]

\* The messages a client can send as the n-th message created.  The payload
\* is empty or not; the backend looks at that only when Retain is set.
Messages(n) ==
    {m \in [n : {n}, topic : Topics, empty : BOOLEAN, qos : QoSLevels,
            retain : BOOLEAN] : m.empty => m.retain}


\* NewMemoryBackend leaves Logins nil
NoLogins == <<>>

\* ------------------------------------------------------------------- Init
Init ==
    /\ sessions = {}
    /\ currentClient = [s \in SessionRefs |-> None]
    /\ subscriptions = [s \in SessionRefs |-> {}]
    /\ missed = [s \in SessionRefs |-> <<>>]
    /\ queue = {}
    /\ offlineQueue = {}
    /\ retained = {}
    /\ ctxClean = [c \in Peers |-> FALSE]
    /\ ctxSession = [c \in Peers |-> None]
    /\ state = [c \in Peers |-> "new"]
    /\ will = [c \in Peers |-> <<>>]
    /\ inbox = [c \in Peers |-> <<>>]
    /\ pending = [c \in Peers |-> <<>>]
    /\ replay = {}
    /\ clientID = [c \in Peers |-> Anonymous]
    /\ resumed = [c \in Peers |-> FALSE]
    /\ sessionPresent = [c \in Peers |-> FALSE]
    /\ evicted = {}
    /\ suppressed = {}
    /\ pubs = <<>>
    /\ created = 0
    /\ subscribed = 0
    /\ outgoing = [s \in SessionRefs |-> <<>>]
    /\ incoming = [s \in SessionRefs |-> {}]
    /\ packetIdCounter = [s \in SessionRefs |-> 1]
    /\ wire = [c \in Peers |-> <<>>]
    /\ dropped = [c \in Peers |-> {}]
    /\ Logins = NoLogins

\* ---------------------------------------------------------------- backend
\* changed: the user's entry is not compared with the password
AuthenticateAnyPassword(logins, user, password) ==
    IF logins = NoLogins THEN TRUE
    ELSE IF user \in DOMAIN logins[1] THEN TRUE
    ELSE FALSE

\* Authenticate, backend.go:102-114
Authenticate(logins, user, password) ==
    IF logins = NoLogins THEN TRUE
    ELSE IF user \in DOMAIN logins[1] /\ logins[1][user] = password THEN TRUE
    ELSE FALSE

\* changed: the stored session is not found
SetupFoundNever(ids, id) == FALSE

\* Setup, backend.go:138-141: is a session stored under id
SetupFound(ids, id) == id \in ids

\* changed: the previous client is closed as after an error
CloseUnclean == FALSE

\* Setup, backend.go:144: the argument of Close for the previous client
CloseClean == TRUE

\* changed: a session that has a client keeps it
SetupCurrentFirst(old, c) == IF old # None THEN old ELSE c

\* Setup, backend.go:148: the client the session is attached to
SetupCurrent(old, c) == c

\* changed: the session is kept as it is
SetupResetNever(found, clean) == FALSE

\* Setup, backend.go:151-153: is the stored session reset
SetupReset(found, clean) == found /\ clean

\* MemorySession.Reset: subscriptions and queued messages are dropped.  The
\* current client is kept: Setup attaches the client before it resets the
\* session (backend.go:148-153) and Terminate clears it itself (backend.go:259).
ResetSubscriptions(subs, s) == [subs EXCEPT ![s] = {}]
ResetMissed(mq, s) == [mq EXCEPT ![s] = <<>>]
ResetPackets(stores, s) == [stores EXCEPT ![s] = <<>>]
ResetIncoming(stores, s) == [stores EXCEPT ![s] = {}]
ResetCounter(ctrs, s) == [ctrs EXCEPT ![s] = 1]

\* Subscribe, backend.go:188
SubscribeQueue(q, c, f) == q \cup {<<f, c>>}

\* changed: the filter is compared with the topic, wildcards are not expanded
SubscribeResultExact(store, f) == {m \in store : m.topic = f}

\* Subscribe, backend.go:191-201: the retained messages the filter matches
SubscribeResult(store, f) == Search(store, f)

\* changed: the client stays in the queue
UnsubscribeQueueKeep(q, c, f) == q

\* Unsubscribe, backend.go:207
UnsubscribeQueue(q, c, f) == q \ {<<f, c>>}

\* changed: every message with a payload is stored, retained or not
RetainedAfterAlways(store, msg) ==
    IF ~msg.empty THEN Set(store, msg)
    ELSE IF msg.retain THEN Empty(store, msg.topic) ELSE store

\* changed: a retained message without payload is stored like any other
RetainedAfterNoEmpty(store, msg) == IF msg.retain THEN Set(store, msg) ELSE store

\* Publish, backend.go:219-225
RetainedAfter(store, msg) ==
    IF msg.retain
    THEN IF ~msg.empty THEN Set(store, msg) ELSE Empty(store, msg.topic)
    ELSE store

\* changed: the message goes to the other clients only
OnlineTargetsOthers(q, publisher, topic) == Match(q, topic) \ {publisher}

\* Publish, backend.go:228-232: the clients whose Publish is invoked
OnlineTargets(q, publisher, topic) == Match(q, topic)

\* Publish, backend.go:235-239: the sessions the message is queued for
OfflineTargets(oq, topic) == Match(oq, topic)

\* changed: the client is removed at the node of the filter # only
TerminateQueueRoot(q, c) == q \ {<<<<"#">>, c>>}

\* Terminate, backend.go:253
TerminateQueue(q, c) == Clear(q, c)

\* changed: the session is registered under every stored filter
TerminateOfflineAll(oq, s, subs) == oq \cup {<<sub.topic, s>> : sub \in subs}

\* Terminate, backend.go:270-281: offline subscriptions for QoS 1 and 2
TerminateOffline(oq, s, subs) ==
    oq \cup {<<sub.topic, s>> : sub \in {x \in subs : x.qos >= 1}}

\* changed: the session of a client without id is stored like any other
SetupSessionsAlways(reg, id) == reg \cup {id}

\* Setup, backend.go:130-135 and 173-175: the session of a client without id
\* is not stored
SetupSessions(reg, id) == IF id = Anonymous THEN reg ELSE reg \cup {id}

\* ---------------------------------------------------------------- actions
\* CONNECT: Backend.Setup, the Will is recorded, CONNACK is sent.  Setup locks
\* sessionsMutex in its first statement and unlocks it on return
\* (backend.go:124-125), so all of it, closing the current client of the
\* session included (backend.go:143-145), is one step under the lock.
Connect(c, id, clean, w) ==
    /\ state[c] = "new"
    \* connections are named in the order in which their CONNECT is handled
    /\ \A i \in 1..NumClients : ClientNames[i] = c =>
          \A j \in 1..(i - 1) : state[ClientNames[j]] # "new"
    /\ c = Publisher => id = Anonymous
    /\ id = Anonymous => clean
    /\ LET found == id # Anonymous /\ SetupFound(sessions, id)
           s == IF id = Anonymous THEN c ELSE id
           old == IF found THEN currentClient[id] ELSE None
       IN  /\ ctxClean' = [ctxClean EXCEPT ![c] = clean]
           /\ ctxSession' = [ctxSession EXCEPT ![c] = s]
           /\ sessions' = SetupSessions(sessions, id)
           /\ currentClient' =
                 IF id = Anonymous THEN currentClient
                 ELSE [currentClient EXCEPT ![s] = SetupCurrent(old, c)]
           /\ state' = [x \in Peers |->
                 IF x = c THEN "connected"
                 ELSE IF x = old THEN "closed" ELSE state[x]]
           /\ will' = [x \in Peers |->
                 IF x = c THEN w
                 ELSE IF x = old /\ CloseClean THEN <<>> ELSE will[x]]
           /\ evicted' = IF old = None THEN evicted ELSE evicted \cup {old}
           /\ suppressed' = IF old # None /\ will[old] # <<>>
                            THEN suppressed \cup {old} ELSE suppressed
           /\ subscriptions' =
                 IF SetupReset(found, clean) THEN ResetSubscriptions(subscriptions, s)
                 ELSE subscriptions
           /\ missed' = IF SetupReset(found, clean) THEN ResetMissed(missed, s) ELSE missed
           /\ outgoing' = IF SetupReset(found, clean) THEN ResetPackets(outgoing, s) ELSE outgoing
           /\ incoming' = IF SetupReset(found, clean) THEN ResetIncoming(incoming, s) ELSE incoming
           /\ packetIdCounter' =
                 IF SetupReset(found, clean) THEN ResetCounter(packetIdCounter, s) ELSE packetIdCounter
           /\ wire' = [wire EXCEPT ![c] = Resend(outgoing'[s])]
           /\ dropped' = [dropped EXCEPT ![c] =
                 IF SetupReset(found, clean) THEN {missed[s][i].n : i \in 1..Len(missed[s])} ELSE {}]
           /\ offlineQueue' = IF found THEN Clear(offlineQueue, s) ELSE offlineQueue
           /\ replay' = IF found THEN replay \cup {<<s, c>>} ELSE replay
           /\ resumed' = [resumed EXCEPT ![c] = found]
           /\ sessionPresent' = [sessionPresent EXCEPT ![c] = found /\ ~clean]
    /\ clientID' = [clientID EXCEPT ![c] = id]
    /\ created' = created + Len(w)
    /\ UNCHANGED <<queue, retained, inbox, pending, pubs, subscribed, Logins>>

\* The goroutine of Setup: the missed messages are drained and handed over.
Replay(s, c) ==
    /\ <<s, c>> \in replay
    /\ replay' = replay \ {<<s, c>>}
    /\ inbox' = [inbox EXCEPT ![c] = DeliverSeq(inbox[c], missed[s], SessionSubs(c))]
    /\ missed' = [missed EXCEPT ![s] = <<>>]
    /\ \E st \in {SendAll(Stores, [i \in 1..Len(missed[s]) |->
                     <<c, Downgrade(missed[s][i], SessionSubs(c))>>])} :
           /\ outgoing' = st.out
           /\ packetIdCounter' = st.ctr
           /\ wire' = st.wire
    /\ UNCHANGED <<sessions, currentClient, subscriptions, queue, offlineQueue,
                   retained, ctxClean, ctxSession, state, will, pending, clientID,
                   resumed, sessionPresent, evicted, suppressed, pubs, created, subscribed,
                   incoming, dropped, Logins>>

\* SUBSCRIBE: the subscription is saved, Backend.Subscribe is called and the
\* retained messages it returned are sent after the SUBACK.
SubscribeReq(c, f, q) ==
    /\ state[c] = "connected"
    /\ pending[c] = <<>>
    /\ subscribed < MaxSubscribes
    /\ subscribed' = subscribed + 1
    /\ LET s == ctxSession[c]
           saved == SaveSubscription(subscriptions[s], f, q)
           ret == SubscribeResult(retained, f)
       IN  /\ subscriptions' = [subscriptions EXCEPT ![s] = saved]
           /\ queue' = SubscribeQueue(queue, c, f)
           /\ \E order \in Orders(ret) :
                 LET st == SendAll(Stores, [i \in 1..Len(order) |->
                               <<c, Downgrade(order[i], saved)>>])
                 IN  /\ inbox' = [inbox EXCEPT ![c] = DeliverSeq(inbox[c], order, saved)]
                     /\ outgoing' = st.out
                     /\ packetIdCounter' = st.ctr
                     /\ wire' = st.wire
    /\ UNCHANGED <<sessions, currentClient, missed, offlineQueue, retained,
                   ctxClean, ctxSession, state, will, pending, replay, clientID,
                   resumed, sessionPresent, evicted, suppressed, pubs, created,
                   incoming, dropped, Logins>>

\* The SUBACK of a SUBSCRIBE packet: one return code for each subscription.
SubackPacket(codes) ==
    [to |-> "client", type |-> "suback", id |-> 0, dup |-> FALSE, msg |-> codes]

\* The subscriptions of a SUBSCRIBE packet are saved one after the other.
RECURSIVE SaveAll(_, _)
SaveAll(subs, list) ==
    IF list = <<>> THEN subs
    ELSE SaveAll(SaveSubscription(subs, Head(list).topic, Head(list).qos), Tail(list))

RECURSIVE SubscribeAll(_, _, _)
SubscribeAll(q, c, list) ==
    IF list = <<>> THEN q
    ELSE SubscribeAll(SubscribeQueue(q, c, Head(list).topic), c, Tail(list))

\* The retained messages collected over the subscriptions of the packet, in
\* the order of the subscriptions.
RECURSIVE RetainedOrders(_, _)
RetainedOrders(store, list) ==
    IF list = <<>> THEN {<<>>}
    ELSE {a \o b : a \in Orders(SubscribeResult(store, Head(list).topic)),
                   b \in RetainedOrders(store, Tail(list))}

\* SUBSCRIBE with several subscriptions: each one is saved and handed to
\* Backend.Subscribe, the SUBACK carries the granted QoS of each, and the
\* retained messages collected on the way are sent after it.
SubscribePacket(c, list) ==
    /\ state[c] = "connected"
    /\ pending[c] = <<>>
    /\ subscribed < MaxSubscribes
    /\ subscribed' = subscribed + 1
    /\ LET s == ctxSession[c]
           saved == SaveAll(subscriptions[s], list)
           acked == [Stores EXCEPT !.wire[c] =
                        Append(@, SubackPacket([i \in 1..Len(list) |-> list[i].qos]))]
       IN  /\ subscriptions' = [subscriptions EXCEPT ![s] = saved]
           /\ queue' = SubscribeAll(queue, c, list)
           /\ \E order \in RetainedOrders(retained, list) :
                 \E st \in {SendAll(acked, [i \in 1..Len(order) |->
                               <<c, Downgrade(order[i], saved)>>])} :
                     /\ inbox' = [inbox EXCEPT ![c] = DeliverSeq(inbox[c], order, saved)]
                     /\ outgoing' = st.out
                     /\ packetIdCounter' = st.ctr
                     /\ wire' = st.wire
    /\ UNCHANGED <<sessions, currentClient, missed, offlineQueue, retained,
                   ctxClean, ctxSession, state, will, pending, replay, clientID,
                   resumed, sessionPresent, evicted, suppressed, pubs, created,
                   incoming, dropped, Logins>>

\* UNSUBSCRIBE: the subscription is deleted and Backend.Unsubscribe is called.
UnsubscribeReq(c, f) ==
    /\ state[c] = "connected"
    /\ pending[c] = <<>>
    /\ subscriptions' = [subscriptions EXCEPT
          ![ctxSession[c]] = DeleteSubscription(subscriptions[ctxSession[c]], f)]
    /\ queue' = UnsubscribeQueue(queue, c, f)
    /\ UNCHANGED <<sessions, currentClient, missed, offlineQueue, retained,
                   ctxClean, ctxSession, state, will, inbox, pending, replay,
                   clientID, resumed, sessionPresent, evicted, suppressed, pubs, created,
                   subscribed, outgoing, incoming, packetIdCounter, wire, dropped, Logins>>

\* Backend.Publish, first step (backend.go:219-232)
\* The clients are served in the order in which the tree returned them; the
\* packets of reply are sent to the publisher once Publish has returned.
PublishOnlineWith(c, msg, reply) ==
    LET to == OnlineTargets(queue, c, msg.topic)
    IN  /\ retained' = RetainedAfter(retained, msg)
        /\ inbox' = Delivered(inbox, to, msg, [x \in Peers |-> SessionSubs(x)])
        /\ \E order \in Orders(to) :
              LET st == SendAll(Stores, [i \in 1..Len(order) |->
                            <<order[i], Downgrade(msg, SessionSubs(order[i]))>>])
              IN  /\ outgoing' = st.out
                  /\ packetIdCounter' = st.ctr
                  /\ wire' = [st.wire EXCEPT ![c] = st.wire[c] \o reply]
        /\ pending' = [pending EXCEPT ![c] = <<msg>>]
        /\ pubs' = Append(pubs, msg)

PublishOnline(c, msg) == PublishOnlineWith(c, msg, <<>>)

\* PUBLISH at QoS 0 or 1 received from a connected client
PublishReq(c, msg) ==
    /\ state[c] = "connected"
    /\ pending[c] = <<>>
    /\ msg.qos < 2
    /\ created < MaxPublishes
    /\ created' = created + 1
    /\ PublishOnline(c, msg)
    /\ UNCHANGED <<sessions, currentClient, subscriptions, missed, queue,
                   offlineQueue, ctxClean, ctxSession, state, will, replay,
                   clientID, resumed, sessionPresent, evicted, suppressed, subscribed,
                   incoming, dropped, Logins>>

\* Backend.Publish, second step (backend.go:235-239)
PublishOffline(c) ==
    /\ pending[c] # <<>>
    /\ LET msg == pending[c][1]
           to == OfflineTargets(offlineQueue, msg.topic)
       IN  missed' = [s \in SessionRefs |->
                IF s \in to THEN Append(missed[s], msg) ELSE missed[s]]
    /\ pending' = [pending EXCEPT ![c] = <<>>]
    /\ UNCHANGED <<sessions, currentClient, subscriptions, queue, offlineQueue,
                   retained, ctxClean, ctxSession, state, will, inbox, replay,
                   clientID, resumed, sessionPresent, evicted, suppressed, pubs, created,
                   subscribed, outgoing, incoming, packetIdCounter, wire, dropped, Logins>>

\* PUBLISH at QoS 2 with an id that is not in the incoming store: the packet
\* is stored and PUBREC is sent; the message is not published yet.
PublishQoS2(c, id, msg) ==
    /\ state[c] = "connected"
    /\ pending[c] = <<>>
    /\ msg.qos = 2
    /\ \A pkt \in incoming[ctxSession[c]] : pkt.id # id
    /\ created < MaxPublishes
    /\ created' = created + 1
    /\ incoming' = [incoming EXCEPT
          ![ctxSession[c]] = incoming[ctxSession[c]] \cup {[id |-> id, msg |-> msg]}]
    /\ wire' = [wire EXCEPT ![c] = Append(wire[c], AckPacket("client", "pubrec", id))]
    /\ UNCHANGED <<sessions, currentClient, subscriptions, missed, queue, offlineQueue,
                   retained, ctxClean, ctxSession, state, will, inbox, pending, replay,
                   clientID, resumed, sessionPresent, evicted, suppressed, pubs,
                   subscribed, outgoing, packetIdCounter, dropped, Logins>>

\* PUBLISH at QoS 2 with an id of the incoming store: PUBREC is sent again.
PublishQoS2Dup(c, id) ==
    /\ state[c] = "connected"
    /\ pending[c] = <<>>
    /\ \E pkt \in incoming[ctxSession[c]] : pkt.id = id
    /\ Len(SelectSeq(wire[c], LAMBDA pkt : pkt = AckPacket("client", "pubrec", id)))
          <= MaxDuplicates
    /\ wire' = [wire EXCEPT ![c] = Append(wire[c], AckPacket("client", "pubrec", id))]
    /\ UNCHANGED <<sessions, currentClient, subscriptions, missed, queue, offlineQueue,
                   retained, ctxClean, ctxSession, state, will, inbox, pending, replay,
                   clientID, resumed, sessionPresent, evicted, suppressed, pubs, created,
                   subscribed, outgoing, incoming, packetIdCounter, dropped, Logins>>

\* PUBREL for an id of the incoming store: the stored message is published,
\* the id is deleted and PUBCOMP is sent.
Pubrel(c, id) ==
    /\ state[c] = "connected"
    /\ pending[c] = <<>>
    /\ \E pkt \in incoming[ctxSession[c]] :
          /\ pkt.id = id
          /\ incoming' = [incoming EXCEPT
                ![ctxSession[c]] = incoming[ctxSession[c]] \ {pkt}]
          /\ PublishOnlineWith(c, pkt.msg, <<AckPacket("client", "pubcomp", id)>>)
    /\ UNCHANGED <<sessions, currentClient, subscriptions, missed, queue,
                   offlineQueue, ctxClean, ctxSession, state, will, replay,
                   clientID, resumed, sessionPresent, evicted, suppressed, created,
                   subscribed, dropped, Logins>>

\* the PUBLISH packets with the id that the connection has been sent at QoS q
SentPublish(c, id, q) ==
    \E i \in 1..Len(wire[c]) :
        /\ wire[c][i].to = "client" /\ wire[c][i].type = "publish"
        /\ wire[c][i].id = id /\ wire[c][i].msg[1].qos = q

\* the stored packet with the id is of the type
Stored(s, id, type) ==
    \E i \in 1..Len(outgoing[s]) : outgoing[s][i].id = id /\ outgoing[s][i].type = type

\* PUBACK and PUBCOMP: the packet is deleted from the outgoing store
PubackStore(store, id) == DeletePacket(store, id)

\* PUBREC: a PUBREL takes the place of the PUBLISH in the outgoing store
PubrecStore(store, id) == SavePacket(store, AckPacket("client", "pubrel", id))

\* PUBACK from the client for a QoS 1 PUBLISH it was sent
Puback(c, id) ==
    /\ state[c] = "connected"
    /\ pending[c] = <<>>
    /\ SentPublish(c, id, 1)
    /\ Stored(ctxSession[c], id, "publish")
    /\ outgoing' = [outgoing EXCEPT
          ![ctxSession[c]] = PubackStore(outgoing[ctxSession[c]], id)]
    /\ wire' = [wire EXCEPT ![c] = Append(wire[c], AckPacket("broker", "puback", id))]
    /\ UNCHANGED <<sessions, currentClient, subscriptions, missed, queue, offlineQueue,
                   retained, ctxClean, ctxSession, state, will, inbox, pending, replay,
                   clientID, resumed, sessionPresent, evicted, suppressed, pubs, created,
                   subscribed, incoming, packetIdCounter, dropped, Logins>>

\* PUBREC from the client for a QoS 2 PUBLISH it was sent: PUBREL is sent
Pubrec(c, id) ==
    /\ state[c] = "connected"
    /\ pending[c] = <<>>
    /\ SentPublish(c, id, 2)
    /\ Stored(ctxSession[c], id, "publish")
    /\ outgoing' = [outgoing EXCEPT
          ![ctxSession[c]] = PubrecStore(outgoing[ctxSession[c]], id)]
    /\ wire' = [wire EXCEPT ![c] = wire[c] \o
          <<AckPacket("broker", "pubrec", id), AckPacket("client", "pubrel", id)>>]
    /\ UNCHANGED <<sessions, currentClient, subscriptions, missed, queue, offlineQueue,
                   retained, ctxClean, ctxSession, state, will, inbox, pending, replay,
                   clientID, resumed, sessionPresent, evicted, suppressed, pubs, created,
                   subscribed, incoming, packetIdCounter, dropped, Logins>>

\* PUBCOMP from the client for a PUBREL it was sent
Pubcomp(c, id) ==
    /\ state[c] = "connected"
    /\ pending[c] = <<>>
    /\ \E i \in 1..Len(wire[c]) : wire[c][i] = AckPacket("client", "pubrel", id)
    /\ Stored(ctxSession[c], id, "pubrel")
    /\ outgoing' = [outgoing EXCEPT
          ![ctxSession[c]] = PubackStore(outgoing[ctxSession[c]], id)]
    /\ wire' = [wire EXCEPT ![c] = Append(wire[c], AckPacket("broker", "pubcomp", id))]
    /\ UNCHANGED <<sessions, currentClient, subscriptions, missed, queue, offlineQueue,
                   retained, ctxClean, ctxSession, state, will, inbox, pending, replay,
                   clientID, resumed, sessionPresent, evicted, suppressed, pubs, created,
                   subscribed, incoming, packetIdCounter, dropped, Logins>>

\* the CONNACK return code of a refused login
NotAuthorized == 5
Connack(code) == AckPacket("client", "connack", code)

\* CONNECT that fails Authenticate: CONNACK NotAuthorized, the connection is
\* closed; neither Setup nor Terminate is called.
Reject(c) ==
    /\ state[c] = "new"
    /\ \A i \in 1..NumClients : ClientNames[i] = c =>
          \A j \in 1..(i - 1) : state[ClientNames[j]] # "new"
    /\ state' = [state EXCEPT ![c] = "rejected"]
    /\ wire' = [wire EXCEPT ![c] = <<Connack(NotAuthorized)>>]
    /\ UNCHANGED <<sessions, currentClient, subscriptions, missed, queue,
                   offlineQueue, retained, ctxClean, ctxSession, will, inbox, pending,
                   replay, clientID, resumed, sessionPresent, evicted, suppressed, pubs,
                   created, subscribed, outgoing, incoming, packetIdCounter,
                   dropped, Logins>>

\* CONNECT with a user name and a password
HandleConnect(c, id, clean, w, user, password) ==
    IF Authenticate(Logins, user, password) THEN Connect(c, id, clean, w)
    ELSE Reject(c)

\* changed: the connection is closed and the Will is kept
DisconnectKeepWill(c) ==
    /\ state[c] = "connected"
    /\ pending[c] = <<>>
    /\ state' = [state EXCEPT ![c] = "closed"]
    /\ UNCHANGED <<sessions, currentClient, subscriptions, missed, queue,
                   offlineQueue, retained, ctxClean, ctxSession, will, inbox,
                   pending, replay, clientID, resumed, sessionPresent, evicted, suppressed,
                   pubs, created, subscribed, outgoing, incoming, packetIdCounter,
                   wire, dropped, Logins>>

\* DISCONNECT: the Will is cleared and the connection is closed.
Disconnect(c) ==
    /\ state[c] = "connected"
    /\ pending[c] = <<>>
    /\ state' = [state EXCEPT ![c] = "closed"]
    /\ will' = [will EXCEPT ![c] = <<>>]
    /\ UNCHANGED <<sessions, currentClient, subscriptions, missed, queue,
                   offlineQueue, retained, ctxClean, ctxSession, inbox, pending,
                   replay, clientID, resumed, sessionPresent, evicted, suppressed, pubs,
                   created, subscribed, outgoing, incoming, packetIdCounter, wire,
                   dropped, Logins>>

\* transport error or keep-alive miss: the connection is closed with its Will
Crash(c) ==
    /\ state[c] = "connected"
    /\ pending[c] = <<>>
    /\ state' = [state EXCEPT ![c] = "closed"]
    /\ UNCHANGED <<sessions, currentClient, subscriptions, missed, queue,
                   offlineQueue, retained, ctxClean, ctxSession, will, inbox,
                   pending, replay, clientID, resumed, sessionPresent, evicted, suppressed,
                   pubs, created, subscribed, outgoing, incoming, packetIdCounter,
                   wire, dropped, Logins>>

\* Disconnected transition: a Will that is still set is published.
PublishWill(c) ==
    /\ state[c] = "closed"
    /\ pending[c] = <<>>
    /\ will[c] # <<>>
    /\ will' = [will EXCEPT ![c] = <<>>]
    /\ PublishOnline(c, will[c][1])
    /\ UNCHANGED <<sessions, currentClient, subscriptions, missed, queue,
                   offlineQueue, ctxClean, ctxSession, state, replay, clientID,
                   resumed, sessionPresent, evicted, suppressed, created, subscribed,
                   incoming, dropped, Logins>>

\* Backend.Terminate
Terminate(c) ==
    /\ state[c] = "closed"
    /\ pending[c] = <<>>
    /\ will[c] = <<>>
    /\ state' = [state EXCEPT ![c] = "done"]
    /\ queue' = TerminateQueue(queue, c)
    /\ LET s == ctxSession[c]
       IN  /\ currentClient' = [currentClient EXCEPT ![s] = None]
           /\ IF ctxClean[c]
              THEN /\ subscriptions' = ResetSubscriptions(subscriptions, s)
                   /\ missed' = ResetMissed(missed, s)
                   /\ outgoing' = ResetPackets(outgoing, s)
                   /\ incoming' = ResetIncoming(incoming, s)
                   /\ packetIdCounter' = ResetCounter(packetIdCounter, s)
                   /\ UNCHANGED offlineQueue
              ELSE /\ offlineQueue' = TerminateOffline(offlineQueue, s, subscriptions[s])
                   /\ UNCHANGED <<subscriptions, missed, outgoing, incoming,
                                  packetIdCounter>>
    /\ UNCHANGED <<sessions, retained, ctxClean, ctxSession, will, inbox, pending,
                   replay, clientID, resumed, sessionPresent, evicted, suppressed, pubs,
                   created, subscribed, wire, dropped, Logins>>

\* ---------------------------------------------------------- specifications
\* the Wills a CONNECT can carry, drawn from the messages ms
Wills(ms) == {<<>>} \cup IF created < MaxPublishes THEN {<<m>> : m \in ms} ELSE {}

\* Sessions: stored and temporary sessions, take-over, Wills and offline
\* subscriptions, with one kind of message.
SessionMessages ==
    {m \in Messages(created + 1) : m.topic = <<"foo", "bar">> /\ m.qos = 1 /\ ~m.retain}
SessionFilters == {<<"foo", "+">>, <<"#">>}
SessionQoS == {0, 1}

Next ==
    \/ \E c \in Clients, id \in IDs \cup {Anonymous}, clean \in BOOLEAN :
          \E w \in Wills(SessionMessages) : Connect(c, id, clean, w)
    \/ \E s \in SessionRefs, c \in Clients : Replay(s, c)
    \/ \E c \in Clients, f \in SessionFilters, q \in SessionQoS : SubscribeReq(c, f, q)
    \/ \E c \in Clients, f \in SessionFilters : UnsubscribeReq(c, f)
    \/ \E c \in Clients : \E msg \in SessionMessages : PublishReq(c, msg)
    \/ \E c \in Clients : PublishOffline(c)
    \/ \E c \in Clients : Disconnect(c)
    \/ \E c \in Clients : Crash(c)
    \/ \E c \in Clients : PublishWill(c)
    \/ \E c \in Clients : Terminate(c)

Spec == Init /\ [][Next]_vars

\* Retained messages: clients without a stored session publish every kind of
\* message, die with retained Wills and subscribe with every filter and QoS.
RetainedMessages == {m \in Messages(created + 1) : m.qos = 1}
RetainedWills ==
    {m \in Messages(created + 1) : m.topic = <<"test">> /\ m.qos = 1 /\ m.retain /\ ~m.empty}

NextRetained ==
    \/ \E c \in Clients : \E w \in Wills(RetainedWills) : Connect(c, Anonymous, TRUE, w)
    \/ \E c \in Clients, f \in Filters, q \in QoSLevels : SubscribeReq(c, f, q)
    \/ \E c \in Clients : \E msg \in RetainedMessages : PublishReq(c, msg)
    \/ \E c \in Clients : PublishOffline(c)
    \/ \E c \in Clients : Disconnect(c)
    \/ \E c \in Clients : Crash(c)
    \/ \E c \in Clients : PublishWill(c)
    \/ \E c \in Clients : Terminate(c)

SpecRetained == Init /\ [][NextRetained]_vars

\* Routing: subscribe, unsubscribe and publish with every filter, on every
\* topic, retained or not.
RoutingMessages == {m \in Messages(created + 1) : ~m.empty /\ m.qos = 1}
RoutingQoS == {0, 1}

NextRouting ==
    \/ \E c \in Clients : Connect(c, Anonymous, TRUE, <<>>)
    \/ \E c \in Clients, f \in Filters, q \in RoutingQoS : SubscribeReq(c, f, q)
    \/ \E c \in Clients, f \in Filters : UnsubscribeReq(c, f)
    \/ \E c \in Clients : \E msg \in RoutingMessages : PublishReq(c, msg)
    \/ \E c \in Clients : PublishOffline(c)
    \/ \E c \in Clients : Disconnect(c)
    \/ \E c \in Clients : Terminate(c)

SpecRouting == Init /\ [][NextRouting]_vars

\* Quality of service: every published QoS meets every subscription QoS.
QoSMessages ==
    {m \in Messages(created + 1) : m.topic = <<"foo", "bar">> /\ ~m.retain}

NextQoS ==
    \/ \E c \in Clients : Connect(c, Anonymous, TRUE, <<>>)
    \/ \E c \in Clients, f \in Filters, q \in QoSLevels : SubscribeReq(c, f, q)
    \/ \E c \in Clients : \E msg \in QoSMessages : PublishReq(c, msg)
    \/ \E c \in Clients : \E msg \in QoSMessages : PublishQoS2(c, 1, msg)
    \/ \E c \in Clients : Pubrel(c, 1)
    \/ \E c \in Clients : PublishOffline(c)
    \/ \E c \in Clients : Disconnect(c)
    \/ \E c \in Clients : Terminate(c)

SpecQoS == Init /\ [][NextQoS]_vars

\* Repeated subscriptions: SUBSCRIBE packets of one subscription or of two
\* for the same filter, and publishes at QoS 0 and 1 on a topic that every
\* filter matches.
SubscribeFilters == {<<"foo", "bar">>, <<"#">>}
SubscribeLists ==
    LET one == [topic : SubscribeFilters, qos : RoutingQoS]
    IN  {<<a>> : a \in one} \cup
        {l \in {<<a, b>> : a \in one, b \in one} : l[1].topic = l[2].topic}
SubscribeMessages ==
    {m \in Messages(created + 1) : m.topic = <<"foo", "bar">> /\ ~m.retain /\ m.qos < 2}

NextSubscribe ==
    \/ \E c \in Clients : Connect(c, Anonymous, TRUE, <<>>)
    \/ \E c \in Clients, list \in SubscribeLists : SubscribePacket(c, list)
    \/ \E c \in Clients : \E msg \in SubscribeMessages : PublishReq(c, msg)
    \/ \E c \in Clients : PublishOffline(c)
    \/ \E c \in Clients : Disconnect(c)
    \/ \E c \in Clients : Terminate(c)

SpecSubscribe == Init /\ [][NextSubscribe]_vars

\* Offline sessions: connections that share a client id subscribe and
\* acknowledge, another one, connected before them, publishes at QoS 1 and 2
\* while they come and go.
OfflineMessages ==
    {m \in Messages(created + 1) : m.topic = <<"foo", "bar">> /\ ~m.retain /\ m.qos >= 1}
OfflineQoS == {1, 2}

NextOffline ==
    \/ Connect(Publisher, Anonymous, TRUE, <<>>)
    \/ \E c \in Clients, id \in IDs, clean \in BOOLEAN :
          state[Publisher] # "new" /\ Connect(c, id, clean, <<>>)
    \/ \E s \in SessionRefs, c \in Clients : Replay(s, c)
    \/ \E c \in Clients, q \in OfflineQoS : SubscribeReq(c, <<"#">>, q)
    \/ \E msg \in OfflineMessages : PublishReq(Publisher, msg)
    \/ \E msg \in OfflineMessages : PublishQoS2(Publisher, 1, msg)
    \/ PublishQoS2Dup(Publisher, 1)
    \/ Pubrel(Publisher, 1)
    \/ PublishOffline(Publisher)
    \/ \E c \in Clients, id \in PacketIDs : Puback(c, id)
    \/ \E c \in Clients, id \in PacketIDs : Pubrec(c, id)
    \/ \E c \in Clients, id \in PacketIDs : Pubcomp(c, id)
    \/ \E c \in Clients : Disconnect(c)
    \/ \E c \in Clients : Terminate(c)

SpecOffline == Init /\ [][NextOffline]_vars

\* Clean sessions: as before, with connections that keep the session and
\* connections that clean it, and messages at QoS 1.
CleanMessages ==
    {m \in Messages(created + 1) : m.topic = <<"foo", "bar">> /\ ~m.retain /\ m.qos = 1}
CleanQoS == {0, 1}

NextClean ==
    \/ Connect(Publisher, Anonymous, TRUE, <<>>)
    \/ \E c \in Clients, id \in IDs, clean \in BOOLEAN :
          state[Publisher] # "new" /\ Connect(c, id, clean, <<>>)
    \/ \E s \in SessionRefs, c \in Clients : Replay(s, c)
    \/ \E c \in Clients, q \in CleanQoS : SubscribeReq(c, <<"#">>, q)
    \/ \E c \in Clients : UnsubscribeReq(c, <<"#">>)
    \/ \E msg \in CleanMessages : PublishReq(Publisher, msg)
    \/ PublishOffline(Publisher)
    \/ \E c \in Clients, id \in PacketIDs : Puback(c, id)
    \/ \E c \in Clients : Disconnect(c)
    \/ \E c \in Clients : Terminate(c)

SpecClean == Init /\ [][NextClean]_vars

\* Resumed sessions: the broker after a client with the id has connected
\* without CleanSession, subscribed at QoS 1 or 2, sent DISCONNECT and been
\* terminated.  The connections that follow resume its session while another
\* connection publishes at QoS 1.
InitResume ==
    /\ sessions = IDs
    /\ currentClient = [s \in SessionRefs |-> None]
    /\ \E q \in OfflineQoS :
          subscriptions = [s \in SessionRefs |->
              IF s \in IDs THEN {[topic |-> <<"#">>, qos |-> q]} ELSE {}]
    /\ missed = [s \in SessionRefs |-> <<>>]
    /\ queue = {}
    /\ offlineQueue = {<<<<"#">>, s>> : s \in IDs}
    /\ retained = {}
    /\ ctxClean = [c \in Peers |-> FALSE]
    /\ ctxSession = [c \in Peers |-> None]
    /\ state = [c \in Peers |-> "new"]
    /\ will = [c \in Peers |-> <<>>]
    /\ inbox = [c \in Peers |-> <<>>]
    /\ pending = [c \in Peers |-> <<>>]
    /\ replay = {}
    /\ clientID = [c \in Peers |-> Anonymous]
    /\ resumed = [c \in Peers |-> FALSE]
    /\ sessionPresent = [c \in Peers |-> FALSE]
    /\ evicted = {}
    /\ suppressed = {}
    /\ pubs = <<>>
    /\ created = 0
    /\ subscribed = 0
    /\ outgoing = [s \in SessionRefs |-> <<>>]
    /\ incoming = [s \in SessionRefs |-> {}]
    /\ packetIdCounter = [s \in SessionRefs |-> 1]
    /\ wire = [c \in Peers |-> <<>>]
    /\ dropped = [c \in Peers |-> {}]
    /\ Logins = NoLogins

NextResume ==
    \/ Connect(Publisher, Anonymous, TRUE, <<>>)
    \/ \E c \in Clients, id \in IDs :
          state[Publisher] # "new" /\ Connect(c, id, FALSE, <<>>)
    \/ \E s \in SessionRefs, c \in Clients : Replay(s, c)
    \/ \E c \in Clients, q \in OfflineQoS : SubscribeReq(c, <<"#">>, q)
    \/ \E msg \in CleanMessages : PublishReq(Publisher, msg)
    \/ PublishOffline(Publisher)
    \/ \E c \in Clients : Disconnect(c)
    \/ \E c \in Clients : Terminate(c)

SpecResume == InitResume /\ [][NextResume]_vars

\* Logins: a broker without a Logins map, with an empty one or with the entry
\* allow:allow; clients connect with or without credentials, subscribe and
\* publish.
Users == {"", "allow", "deny"}
Passwords == {"", "allow", "deny"}
LoginsMaps == {[u \in {} |-> ""], [u \in {"allow"} |-> "allow"]}
AuthMessages ==
    {m \in Messages(created + 1) : m.topic = <<"foo", "bar">> /\ m.qos = 1 /\ ~m.empty}

InitAuth ==
    /\ sessions = {}
    /\ currentClient = [s \in SessionRefs |-> None]
    /\ subscriptions = [s \in SessionRefs |-> {}]
    /\ missed = [s \in SessionRefs |-> <<>>]
    /\ queue = {}
    /\ offlineQueue = {}
    /\ retained = {}
    /\ ctxClean = [c \in Peers |-> FALSE]
    /\ ctxSession = [c \in Peers |-> None]
    /\ state = [c \in Peers |-> "new"]
    /\ will = [c \in Peers |-> <<>>]
    /\ inbox = [c \in Peers |-> <<>>]
    /\ pending = [c \in Peers |-> <<>>]
    /\ replay = {}
    /\ clientID = [c \in Peers |-> Anonymous]
    /\ resumed = [c \in Peers |-> FALSE]
    /\ sessionPresent = [c \in Peers |-> FALSE]
    /\ evicted = {}
    /\ suppressed = {}
    /\ pubs = <<>>
    /\ created = 0
    /\ subscribed = 0
    /\ outgoing = [s \in SessionRefs |-> <<>>]
    /\ incoming = [s \in SessionRefs |-> {}]
    /\ packetIdCounter = [s \in SessionRefs |-> 1]
    /\ wire = [c \in Peers |-> <<>>]
    /\ dropped = [c \in Peers |-> {}]
    /\ Logins \in {NoLogins} \cup {<<l>> : l \in LoginsMaps}

NextAuth ==
    \/ \E c \in Clients, id \in IDs, clean \in BOOLEAN, user \in Users,
          password \in Passwords : HandleConnect(c, id, clean, <<>>, user, password)
    \/ \E s \in SessionRefs, c \in Clients : Replay(s, c)
    \/ \E c \in Clients : SubscribeReq(c, <<"#">>, 1)
    \/ \E c \in Clients, msg \in AuthMessages : PublishReq(c, msg)
    \/ \E c \in Clients : PublishOffline(c)
    \/ \E c \in Clients : Disconnect(c)
    \/ \E c \in Clients : Terminate(c)

SpecAuth == InitAuth /\ [][NextAuth]_vars

\* A Publish under way: the state of InitResume after the publisher has
\* connected and its Publish of a QoS 1 message has served the online clients
\* (none), before it goes on to the offline queue.
InitPublishing ==
    /\ sessions = IDs
    /\ currentClient = [s \in SessionRefs |-> None]
    /\ \E q \in OfflineQoS :
          subscriptions = [s \in SessionRefs |->
              IF s \in IDs THEN {[topic |-> <<"#">>, qos |-> q]} ELSE {}]
    /\ missed = [s \in SessionRefs |-> <<>>]
    /\ queue = {}
    /\ offlineQueue = {<<<<"#">>, s>> : s \in IDs}
    /\ retained = {}
    /\ ctxClean = [c \in Peers |-> c = Publisher]
    /\ ctxSession = [c \in Peers |-> IF c = Publisher THEN Publisher ELSE None]
    /\ state = [c \in Peers |-> IF c = Publisher THEN "connected" ELSE "new"]
    /\ will = [c \in Peers |-> <<>>]
    /\ inbox = [c \in Peers |-> <<>>]
    /\ \E msg \in {m \in Messages(1) : m.topic = <<"foo", "bar">> /\ ~m.retain /\ m.qos = 1} :
          /\ pending = [c \in Peers |-> IF c = Publisher THEN <<msg>> ELSE <<>>]
          /\ pubs = <<msg>>
    /\ replay = {}
    /\ clientID = [c \in Peers |-> Anonymous]
    /\ resumed = [c \in Peers |-> FALSE]
    /\ sessionPresent = [c \in Peers |-> FALSE]
    /\ evicted = {}
    /\ suppressed = {}
    /\ created = 1
    /\ subscribed = 0
    /\ outgoing = [s \in SessionRefs |-> <<>>]
    /\ incoming = [s \in SessionRefs |-> {}]
    /\ packetIdCounter = [s \in SessionRefs |-> 1]
    /\ wire = [c \in Peers |-> <<>>]
    /\ dropped = [c \in Peers |-> {}]
    /\ Logins = NoLogins

NextPublishing ==
    \/ \E c \in Clients, id \in IDs : Connect(c, id, FALSE, <<>>)
    \/ \E s \in SessionRefs, c \in Clients : Replay(s, c)
    \/ \E c \in Clients, q \in OfflineQoS : SubscribeReq(c, <<"#">>, q)
    \/ \E msg \in CleanMessages : PublishReq(Publisher, msg)
    \/ PublishOffline(Publisher)
    \/ \E c \in Clients : Disconnect(c)
    \/ \E c \in Clients : Terminate(c)

SpecPublishing == InitPublishing /\ [][NextPublishing]_vars

\* The goroutine that Setup starts is scheduled, and a Publish that has
\* served the online clients goes on to the offline queue.
FairResume ==
    /\ SpecResume
    /\ \A s \in SessionRefs, c \in Clients : WF_vars(Replay(s, c))
    /\ WF_vars(PublishOffline(Publisher))

\* ------------------------------------------------------------ properties
\* MQTT matching of the filters and topics of the model, written out
TopicMatches(f, t) ==
    \/ f = <<"#">>
    \/ f = <<"foo", "+">> /\ t = <<"foo", "bar">>
    \/ f = <<"foo", "bar">> /\ t = <<"foo", "bar">>

\* the most recent message published with Retain set on topic t, as a set
RetainPublishes(t) == {i \in 1..Len(pubs) : pubs[i].retain /\ pubs[i].topic = t}
LastRetainPublish(t) ==
    {pubs[i] : i \in {j \in RetainPublishes(t) : \A k \in RetainPublishes(t) : k <= j}}

\* the highest QoS granted by the filters of subs that match topic t, as a set
GrantedQoS(subs, t) ==
    LET qs == {x.qos : x \in {y \in subs : TopicMatches(y.topic, t)}}
    IN  {q \in qs : \A r \in qs : r <= q}

\* the messages appended to the inbox of client c by the step
Received(c) == {inbox'[c][i] : i \in (Len(inbox[c]) + 1)..Len(inbox'[c])}

\* C1: the retained store holds a message for a topic exactly when the most
\* recent publish with Retain set on that topic had a payload, and the stored
\* message is that publish; a retained publish without payload removes it.
C1_RetainedIsLastRetainPublish ==
    \A t \in Topics :
        {m \in retained : m.topic = t} = {m \in LastRetainPublish(t) : ~m.empty}

\* C1 witness: a retained message was stored and then removed by a retained
\* publish without payload on its topic.
C1_Witness ==
    \E i, j \in 1..Len(pubs) :
        /\ i < j
        /\ pubs[i].topic = pubs[j].topic
        /\ pubs[i].retain /\ ~pubs[i].empty
        /\ pubs[j].retain /\ pubs[j].empty
        /\ \A m \in retained : m.topic # pubs[j].topic

\* C2: a Subscribe whose filter matches a topic with a retained message hands
\* that message to the subscriber, with Retain set and at the lower of the
\* message's QoS and the QoS the subscriber holds for the topic.
C2_SubscribeDeliversRetained ==
    [][\A c \in Clients, f \in Filters, q \in QoSLevels :
          SubscribeReq(c, f, q) =>
             \A t \in Topics : \A m \in LastRetainPublish(t) :
                (TopicMatches(f, t) /\ ~m.empty) =>
                   \E r \in Received(c) :
                      /\ r.retain
                      /\ r = [m EXCEPT !.qos = Min(m.qos,
                            CHOOSE g \in GrantedQoS(subscriptions'[ctxSession[c]], t) : TRUE)]
      ]_vars

\* C2 witness: a client that subscribed with a wildcard at QoS 0 after a
\* retained QoS 1 publish holds the retained message at QoS 0.
C2_Witness ==
    \E c \in Clients : \E m \in retained :
        /\ pending[c] = <<>>
        /\ SessionSubs(c) = {[topic |-> <<"foo", "+">>, qos |-> 0]}
        /\ m.topic = <<"foo", "bar">> /\ m.qos = 1
        /\ inbox[c] = <<[m EXCEPT !.qos = 0]>>
        /\ Len(pubs) = 1

\* C3: after a retained publish without payload on a topic, a Subscribe hands
\* over no retained message of that topic.
C3_SubscribeAfterClear ==
    [][\A c \in Clients, f \in Filters, q \in QoSLevels :
          SubscribeReq(c, f, q) =>
             \A t \in Topics : \A m \in LastRetainPublish(t) :
                m.empty => \A r \in Received(c) : r.topic # t
      ]_vars

\* C3 witness: a client subscribed with a matching filter after the retained
\* message of the topic was stored and cleared, and got nothing.
C3_Witness ==
    \E c \in Clients : \E i, j \in 1..Len(pubs) :
        /\ i < j
        /\ pubs[i].topic = pubs[j].topic
        /\ pubs[i].retain /\ ~pubs[i].empty
        /\ pubs[j].retain /\ pubs[j].empty
        /\ \E x \in SessionSubs(c) : TopicMatches(x.topic, pubs[j].topic)
        /\ inbox[c] = <<>>
        /\ \A p \in Clients : pending[p] = <<>>

\* a step that begins a Backend.Publish, and the message it publishes
PublishStep == Len(pubs') = Len(pubs) + 1
Published == pubs'[Len(pubs')]

C5_DeliveredQoSIsMinimum ==
    [][PublishStep =>
          \A x \in Clients : \A g \in GrantedQoS(SessionSubs(x), Published.topic) :
             \A r \in Received(x) : r = [Published EXCEPT !.qos = Min(Published.qos, g)]
      ]_vars

\* C5 witness: a message published at QoS 2 was handed at QoS 1 to a client
\* subscribed at QoS 1, and one published at QoS 0 at QoS 0.
C5_Witness ==
    \E x \in Clients :
        /\ Len(inbox[x]) = 2 /\ Len(pubs) = 2
        /\ \E sub \in SessionSubs(x) : sub.qos = 1
        /\ \E i, j \in 1..2 :
              /\ pubs[i].qos = 2 /\ inbox[x][i] = [pubs[i] EXCEPT !.qos = 1]
              /\ pubs[j].qos = 0 /\ inbox[x][j] = pubs[j]

\* C6: a message published after a client has unsubscribed is not handed to
\* that client when none of the filters it still holds matches the topic.
C6_NoDeliveryAfterUnsubscribe ==
    [][PublishStep =>
          \A x \in Clients :
             (\A sub \in SessionSubs(x) : ~TopicMatches(sub.topic, Published.topic))
                => inbox'[x] = inbox[x]
      ]_vars

\* C6 witness: the only connected client subscribed, unsubscribed and then
\* published on a topic every filter matches, and got nothing.
C6_Witness ==
    \E x \in Clients :
        /\ \A y \in Clients \ {x} : state[y] = "new"
        /\ subscribed >= 1
        /\ SessionSubs(x) = {}
        /\ pending[x] # <<>>
        /\ pending[x][1].topic = <<"foo", "bar">>
        /\ inbox[x] = <<>>

\* a step in which the CONNECT of client c is accepted
ConnectStep(c) == state[c] = "new" /\ state'[c] = "connected"

\* C7: a stored session has one current client, which is bound to it; a Setup
\* for an id whose session has a current client closes that client and leaves
\* the new client as the session's current client.
C7_SetupReplacesCurrentClient ==
    [][\A c \in Clients :
          /\ \A id \in IDs :
                currentClient'[id] # None => ctxSession'[currentClient'[id]] = id
          /\ (/\ ConnectStep(c)
              /\ clientID'[c] \in sessions
              /\ currentClient[clientID'[c]] # None)
             => /\ state'[currentClient[clientID'[c]]] = "closed"
                /\ currentClient'[clientID'[c]] = c
      ]_vars

\* C7 witness: a connected client took the session over from a client that
\* was closed for it.
C7_Witness ==
    \E c \in evicted : \E n \in Clients \ {c} :
        /\ state[c] = "closed"
        /\ state[n] = "connected"
        /\ currentClient[clientID[c]] = n

\* C8: a client closed by the Setup of a CONNECT with its client id loses its
\* Will with that step, its Will is not published from then on, and the
\* CONNECT is accepted without any message being published.
C8_TakeOverSuppressesWill ==
    [][\A c \in Clients :
          /\ c \in evicted' => ~PublishWill(c)
          /\ c \in evicted' \ evicted =>
                /\ will'[c] = <<>>
                /\ pubs' = pubs
                /\ \E n \in Clients : ConnectStep(n) /\ currentClient'[clientID'[n]] = n
      ]_vars

\* C8 witness: a client that held a Will was taken over and has terminated,
\* and no message was ever published.
C8_Witness ==
    \E c \in suppressed : \E n \in Clients \ {c} :
        /\ state[c] = "done"
        /\ state[n] = "connected"
        /\ clientID[n] = clientID[c]
        /\ pubs = <<>>

\* C9: Setup reports a resumed session exactly for a non-empty id that an
\* earlier CONNECT has used, and the CONNACK reports a present session exactly
\* when the session is resumed and CleanSession is not set.  (Clients connect
\* in the order of their names.)
C9_SessionPresent ==
    \A i \in 1..NumClients :
        LET c == ClientNames[i]
            earlier == /\ clientID[c] # Anonymous
                       /\ \E j \in 1..(i - 1) : clientID[ClientNames[j]] = clientID[c]
        IN  state[c] # "new" =>
               /\ resumed[c] = earlier
               /\ sessionPresent[c] = (earlier /\ ~ctxClean[c])

\* C9 witness: a second CONNECT with the id and without CleanSession got a
\* CONNACK with SessionPresent.
C9_Witness ==
    \E c, d \in Clients :
        /\ c # d
        /\ clientID[c] = "a" /\ clientID[d] = "a"
        /\ state[c] # "new" /\ ~sessionPresent[c]
        /\ state[d] = "connected" /\ ~ctxClean[d] /\ sessionPresent[d]

\* C10: a client that resumes a stored session, after the clients that held
\* the session before it have disconnected, is handed every message published
\* on a topic that a stored subscription of the session matches, at the lower
\* of the published and the stored QoS.
C10_StoredSubscriptionsDeliver ==
    [][PublishStep =>
          \A x \in Clients : \A g \in GrantedQoS(SessionSubs(x), Published.topic) :
             (/\ state[x] = "connected"
              /\ resumed[x]
              /\ ~ctxClean[x]
              /\ \A y \in Clients \ {x} :
                    ctxSession[y] = ctxSession[x] =>
                       state[y] = "done" /\ ~ctxClean[y] /\ y \notin evicted)
             => \E r \in Received(x) : r = [Published EXCEPT !.qos = Min(Published.qos, g)]
      ]_vars

Cleared(id) ==
    \/ /\ subscriptions[id] # {} /\ subscriptions'[id] = {}
       /\ \A f \in Filters : ~UnsubscribeReq(currentClient[id], f)
    \/ /\ outgoing[id] # <<>> /\ outgoing'[id] = <<>>
       /\ \A n \in PacketIDsOf(outgoing[id]) :
             ~Puback(currentClient[id], n) /\ ~Pubcomp(currentClient[id], n)

\* C12: a stored session stays stored and every later CONNECT with its id
\* resumes it; while a client that connected without CleanSession is attached
\* to it, only a CONNECT with its id and CleanSession set clears its
\* subscriptions or its unacknowledged packets.
C12_OnlyCleanConnectDestroys ==
    [][\A id \in IDs :
          /\ id \in sessions => id \in sessions'
          /\ \A c \in Clients :
                (ConnectStep(c) /\ clientID'[c] = id) => resumed'[c] = (id \in sessions)
          /\ (/\ id \in sessions
              /\ currentClient[id] # None
              /\ ~ctxClean[currentClient[id]]
              /\ Cleared(id))
             => \E c \in Clients : ConnectStep(c) /\ clientID'[c] = id /\ ctxClean'[c]
      ]_vars

\* the client that was attached to session s last: clients connect in the
\* order of their names
LastOwner(s) ==
    LET is == {i \in 1..NumClients :
                  state[ClientNames[i]] # "new" /\ ctxSession[ClientNames[i]] = s}
    IN  {ClientNames[i] : i \in {j \in is : \A k \in is : k <= j}}

\* C13: a session is in the offline queue under a filter only if the client
\* that owns it, or owned it last, connected without CleanSession and the
\* session holds a subscription to that filter at QoS 1 or 2.
C13_OfflineQueueMembership ==
    \A e \in offlineQueue :
        /\ \A c \in LastOwner(e[2]) : ~ctxClean[c]
        /\ \E sub \in subscriptions[e[2]] : sub.topic = e[1] /\ sub.qos >= 1


\* message number n waits in the missed queue of the session id
Missed(id, n) == \E i \in 1..Len(missed[id]) : missed[id][i].n = n

\* the client has been sent a PUBLISH of message number n at the lower of the
\* publish QoS and the QoS of the session's subscription
SentMissed(c, n) ==
    \E i \in 1..Len(wire[c]), j \in 1..Len(pubs) :
        /\ pubs[j].n = n
        /\ wire[c][i].type = "publish"
        /\ wire[c][i].msg = <<Downgrade(pubs[j], SessionSubs(c))>>

\* C14: a message that entered the missed queue of a session while no client
\* was attached to it is eventually sent, at the lower of the publish and the
\* subscription QoS, to a client that connects with the session's id and
\* without CleanSession, unless that client's connection ends first.
C14_MissedEventuallyDelivered ==
    \A id \in IDs, c \in Clients, n \in 1..MaxPublishes :
        [](  (currentClient[id] = None /\ Missed(id, n))
          => []( (currentClient[id] = c /\ state[c] = "connected" /\ ~ctxClean[c])
                 => <>(SentMissed(c, n) \/ state[c] # "connected")))


\* the step publishes the Will of the closed client c through Backend.Publish
\* and every client subscribed to its topic is handed it once, at the Will's
\* QoS or at the lower QoS of a subscription of its session
WillStep(c) ==
    /\ will'[c] = <<>>
    /\ PublishStep /\ Published = will[c][1]
    /\ \A x \in Clients :
          (\E e \in queue : e[2] = x /\ TopicMatches(e[1], Published.topic)) =>
             /\ Len(inbox'[x]) = Len(inbox[x]) + 1
             /\ \A r \in Received(x) :
                   /\ r = [Published EXCEPT !.qos = r.qos]
                   /\ \/ r.qos = Published.qos
                      \/ \E sub \in SessionSubs(x) :
                            /\ TopicMatches(sub.topic, Published.topic)
                            /\ sub.qos < Published.qos /\ r.qos = sub.qos

\* C15: a client that was closed without DISCONNECT while it held a Will
\* keeps the Will and is not terminated until a step publishes the Will, and
\* that step hands it to every subscribed client; a Will is published once.
C15_WillPublishedOnce ==
    [][\A c \in Clients :
          /\ (state[c] = "closed" /\ will[c] # <<>>) =>
                \/ state'[c] = "closed" /\ will'[c] = will[c]
                \/ WillStep(c)
          /\ PublishWill(c) => \A i \in 1..Len(pubs) : pubs[i].n # Published.n
      ]_vars


\* the i-th packet of the wire w is a PUBLISH at QoS q to the client
IsPublish(w, i, q) ==
    w[i].to = "client" /\ w[i].type = "publish" /\ w[i].msg[1].qos = q

\* an acknowledgement of the type from the client for the id follows the
\* i-th packet of the wire w
AckedAfter(w, i, type) ==
    \E j \in (i + 1)..Len(w) : w[j] = AckPacket("broker", type, w[i].id)

\* the packets the step has sent to, or received from, the client c
NewPackets(c) ==
    IF ConnectStep(c) THEN {wire'[c][i] : i \in 1..Len(wire'[c])}
    ELSE {wire'[c][i] : i \in (Len(wire[c]) + 1)..Len(wire'[c])}

\* C16: a CONNECT without CleanSession is sent again, with DUP set and the
\* same id, each QoS 1 PUBLISH that was sent to the connection that held the
\* session before it, exactly when that connection sent no PUBACK for it; a
\* QoS 1 PUBLISH without PUBACK stays in the session's store for that resend
\* as long as no CONNECT with CleanSession takes the session; and a PUBLISH
\* for which a PUBACK was received is sent on no connection again.
C16_ResendUntilPuback ==
    [][/\ \A c \in Clients : (ConnectStep(c) /\ ~ctxClean'[c]) =>
             \A x \in LastOwner(clientID'[c]) : ~ctxClean[x] =>
                \A i \in 1..Len(wire[x]) : IsPublish(wire[x], i, 1) =>
                   (   (\E j \in 1..Len(wire'[c]) :
                           wire'[c][j] = [wire[x][i] EXCEPT !.dup = TRUE])
                   <=> ~AckedAfter(wire[x], i, "puback"))
       /\ \A id \in IDs : \A x \in LastOwner(id)' : ~ctxClean'[x] =>
             \A i \in 1..Len(wire'[x]) :
                (IsPublish(wire'[x], i, 1) /\ ~AckedAfter(wire'[x], i, "puback")) =>
                   \E k \in 1..Len(outgoing'[id]) :
                      /\ outgoing'[id][k].type = "publish"
                      /\ outgoing'[id][k].id = wire'[x][i].id
                      /\ outgoing'[id][k].msg = wire'[x][i].msg
       /\ \A c, x \in Clients : \A pkt \in NewPackets(c) :
             (clientID[x] = clientID'[c] /\ pkt.type = "publish") =>
                \A i \in 1..Len(wire[x]) :
                   (IsPublish(wire[x], i, 1) /\ AckedAfter(wire[x], i, "puback")) =>
                      ~(pkt.id = wire[x][i].id /\ pkt.msg = wire[x][i].msg)
      ]_vars


\* the outgoing store of the session holds a packet of the type with the id
\* and, for a PUBLISH, the message of the packet pkt
Holds(store, type, pkt) ==
    \E k \in 1..Len(store) :
        /\ store[k].type = type /\ store[k].id = pkt.id
        /\ type = "publish" => store[k].msg = pkt.msg

\* C17: a CONNECT without CleanSession is sent again each QoS 2 PUBLISH that
\* was sent to the connection that held the session before it: the PUBLISH
\* with DUP set when that connection sent no PUBREC, the PUBREL with the same
\* id and not the PUBLISH when it sent PUBREC and no PUBCOMP; until then the
\* session's store holds the PUBLISH, then the PUBREL, as long as no CONNECT
\* with CleanSession takes the session.
C17_ResendByHandshakeStep ==
    [][/\ \A c \in Clients : (ConnectStep(c) /\ ~ctxClean'[c]) =>
             \A x \in LastOwner(clientID'[c]) : ~ctxClean[x] =>
                \A i \in 1..Len(wire[x]) : IsPublish(wire[x], i, 2) =>
                   LET again == \E j \in 1..Len(wire'[c]) :
                                   wire'[c][j] = [wire[x][i] EXCEPT !.dup = TRUE]
                       pubrel == \E j \in 1..Len(wire'[c]) :
                                   wire'[c][j] = AckPacket("client", "pubrel", wire[x][i].id)
                   IN  /\ ~AckedAfter(wire[x], i, "pubrec") => again /\ ~pubrel
                       /\ (   AckedAfter(wire[x], i, "pubrec")
                           /\ ~AckedAfter(wire[x], i, "pubcomp")) => pubrel /\ ~again
       /\ \A id \in IDs : \A x \in LastOwner(id)' : ~ctxClean'[x] =>
             \A i \in 1..Len(wire'[x]) : IsPublish(wire'[x], i, 2) =>
                /\ ~AckedAfter(wire'[x], i, "pubrec") =>
                      Holds(outgoing'[id], "publish", wire'[x][i])
                /\ (   AckedAfter(wire'[x], i, "pubrec")
                    /\ ~AckedAfter(wire'[x], i, "pubcomp")) =>
                      Holds(outgoing'[id], "pubrel", wire'[x][i])
      ]_vars


\* the PUBLISH packets without DUP that carried message number n at QoS 2 to
\* a connection of the client id, as <<connection, position on its wire>>
FirstSends(id, n) ==
    {e \in Clients \X (1..(2 * MaxPublishes + 2)) :
        /\ clientID[e[1]] = id /\ e[2] <= Len(wire[e[1]])
        /\ IsPublish(wire[e[1]], e[2], 2)
        /\ ~wire[e[1]][e[2]].dup
        /\ wire[e[1]][e[2]].msg[1].n = n}

\* C18: a QoS 2 PUBLISH from a client reaches Backend.Publish with its
\* PUBREL and not before, once, however often the PUBLISH is repeated; and
\* the connections of a client id are sent a message at QoS 2 in one PUBLISH
\* without DUP, every other copy being the resend of that packet.
C18_ExactlyOnce ==
    [][/\ \A c \in Peers, id \in PacketIDs :
             (PublishQoS2Dup(c, id) \/ \E msg \in OfflineMessages : PublishQoS2(c, id, msg))
                => pubs' = pubs
       /\ \A c \in Peers, id \in PacketIDs : Pubrel(c, id) =>
             /\ PublishStep
             /\ \E pkt \in incoming[ctxSession[c]] : pkt.id = id /\ pkt.msg = Published
             /\ \A pkt \in incoming'[ctxSession[c]] : pkt.id # id
       /\ \A i, j \in 1..Len(pubs') : pubs'[i].n = pubs'[j].n => i = j
       /\ \A id \in IDs, n \in 1..MaxPublishes : Cardinality(FirstSends(id, n)') <= 1
      ]_vars


\* C19: a CONNECT is accepted exactly when no Logins map is configured or the
\* map has an entry for the user that equals the password; an accepted
\* CONNECT goes through Setup, a refused one is answered with CONNACK
\* NotAuthorized and closed, leaves the sessions, the subscription queue, the
\* retained store and the offline queue as they were, and its connection is
\* never terminated.
C19_AcceptedIffAuthenticated ==
    [][\A c \in Clients :
          /\ \A id \in IDs, clean \in BOOLEAN, user \in Users, password \in Passwords :
                HandleConnect(c, id, clean, <<>>, user, password) =>
                   LET ok == \/ Logins = NoLogins
                             \/ /\ user \in DOMAIN Logins[1]
                                /\ Logins[1][user] = password
                   IN  /\ state'[c] = "connected" <=> ok
                       /\ ok => ctxSession'[c] = id /\ id \in sessions'
                       /\ ~ok =>
                             /\ state'[c] = "rejected"
                             /\ wire'[c] = <<Connack(NotAuthorized)>>
                             /\ UNCHANGED <<sessions, currentClient, subscriptions,
                                            missed, queue, offlineQueue, retained,
                                            ctxSession, replay, outgoing, incoming>>
          /\ state[c] = "rejected" =>
                /\ state'[c] = "rejected" /\ ctxSession'[c] = None
                /\ ~Terminate(c)
      ]_vars

\* C19 witness: with the entry allow:allow configured one client is connected
\* and subscribed, a message is retained, and a CONNECT of another client was
\* refused.
C19_Witness ==
    \E c, x \in Clients :
        /\ Logins = <<[u \in {"allow"} |-> "allow"]>>
        /\ state[c] = "rejected" /\ wire[c] = <<Connack(NotAuthorized)>>
        /\ state[x] = "connected" /\ queue # {} /\ sessions # {}
        /\ retained # {}


\* the position in publish order of the message of a PUBLISH packet
PublishIndex(pkt) == CHOOSE k \in 1..Len(pubs) : pubs[k].n = pkt.msg[1].n

\* the i-th packet on the wire of c is the first PUBLISH of a message, sent
\* at the QoS at which the message was published
FirstSend(c, i) ==
    /\ wire[c][i].to = "client" /\ wire[c][i].type = "publish" /\ ~wire[c][i].dup
    /\ \E k \in 1..Len(pubs) : pubs[k] = wire[c][i].msg[1]

\* C20: the messages a connection is sent at their publish QoS arrive in the
\* order in which they were published, those that waited in the session's
\* missed queue included.
C20_PublishOrder ==
    \A c \in Clients : \A i, j \in 1..Len(wire[c]) :
        (i < j /\ FirstSend(c, i) /\ FirstSend(c, j)) =>
            PublishIndex(wire[c][i]) <= PublishIndex(wire[c][j])


\* the subscriptions of the session of client x whose filter matches topic t
Matching(x, t) == {sub \in SessionSubs(x) : TopicMatches(sub.topic, t)}

C22_ResubscribeReplaces ==
    [][/\ \A c \in Clients, list \in SubscribeLists :
             SubscribePacket(c, list) =>
                LET before == subscriptions[ctxSession[c]]
                    after == subscriptions'[ctxSession[c]]
                    named == {list[k].topic : k \in 1..Len(list)}
                IN  /\ Len(wire'[c]) > Len(wire[c])
                    /\ wire'[c][Len(wire[c]) + 1].type = "suback"
                    /\ wire'[c][Len(wire[c]) + 1].msg = [k \in 1..Len(list) |-> list[k].qos]
                    /\ \A sub, other \in after : sub.topic = other.topic => sub = other
                    /\ \A k \in 1..Len(list) :
                          (\A j \in (k + 1)..Len(list) : list[j].topic # list[k].topic)
                             => list[k] \in after
                    /\ {sub \in after : sub.topic \notin named} =
                          {sub \in before : sub.topic \notin named}
       /\ PublishStep =>
             \A x \in Clients : \A sub \in SessionSubs(x) :
                Matching(x, Published.topic) = {sub} =>
                   /\ Len(inbox'[x]) = Len(inbox[x]) + 1
                   /\ Received(x) = {[Published EXCEPT !.qos = Min(Published.qos, sub.qos)]}
      ]_vars

\* C22 witness: a client subscribed to a filter at QoS 1 and, in a later
\* packet, to the same filter at QoS 0 and at QoS 1 again; a message then
\* published at QoS 1 reached it once, at QoS 1.
C22_Witness ==
    \E x \in Clients :
        /\ Len(wire[x]) >= 2
        /\ wire[x][1].type = "suback" /\ wire[x][1].msg = <<1>>
        /\ wire[x][2].type = "suback" /\ wire[x][2].msg = <<0, 1>>
        /\ SessionSubs(x) = {[topic |-> <<"foo", "bar">>, qos |-> 1]}
        /\ Len(pubs) = 1 /\ pubs[1].qos = 1
        /\ inbox[x] = <<pubs[1]>>


\* C23: the step in which Setup holds the sessions mutex closes no client:
\* the client evicted from the session is closed once the mutex is released.
C23_EvictedClosedOutsideLock ==
    [][\A c \in Clients :
          ConnectStep(c) => \A x \in Clients \ {c} : state'[x] = state[x]
      ]_vars


\* the clients whose CONNECT is handled with that of client c or after it:
\* clients connect in the order of their names
NotBefore(c) ==
    {ClientNames[j] : j \in {k \in 1..NumClients :
                                \A i \in 1..NumClients : ClientNames[i] = c => i <= k}}

\* a step that ends the Backend.Publish called for client x
PublishDone(x) == pending[x] # <<>> /\ pending'[x] = <<>>

\* C24: a Setup that resumes a session leaves it at no position of the offline
\* queue when it starts the replay, and while the resuming client is connected
\* no Publish called for a client that connected with it or after it appends
\* to the missed queue of the session.
C24_ResumedNotQueuedOffline ==
    [][\A c \in Clients :
          /\ (ConnectStep(c) /\ resumed'[c]) =>
                /\ <<ctxSession'[c], c>> \in replay'
                /\ \A e \in offlineQueue' : e[2] # ctxSession'[c]
          /\ (state[c] = "connected" /\ resumed[c]) =>
                \A x \in NotBefore(c) :
                   PublishDone(x) => missed'[ctxSession[c]] = missed[ctxSession[c]]
      ]_vars


\* a step in which Backend.Terminate runs for client c
TerminateStep(c) == state[c] = "closed" /\ state'[c] = "done"

\* C25: Terminate removes the client from every node of the subscription tree
\* and leaves the entries of the other clients as they were; a client that
\* has been terminated is at no node, and no Publish hands it a message.
C25_TerminateClearsQueue ==
    [][\A c \in Clients :
          /\ TerminateStep(c) =>
                {e \in queue' : e[2] # c} = {e \in queue : e[2] # c}
          /\ state'[c] = "done" => \A e \in queue' : e[2] # c
          /\ (PublishStep /\ state[c] = "done") => inbox'[c] = inbox[c]
      ]_vars

\* C25 witness: two clients got the first message; one of them was terminated
\* and is at no node, the other one is still subscribed and got the second
\* message alone.
C25_Witness ==
    \E c, x \in Clients :
        /\ c # x
        /\ state[c] = "done"
        /\ \A e \in queue : e[2] # c
        /\ \E e \in queue : e[2] = x
        /\ Len(pubs) = 2
        /\ inbox[c] = <<pubs[1]>>
        /\ Len(inbox[x]) = 2 /\ inbox[x][2].n = pubs[2].n


\* C26: Terminate sets the current client of the session bound to the client
\* to none.  For a client that connected with CleanSession it resets the
\* session and leaves the offline queue as it is; for any other client it
\* leaves the session as it is and adds it to the offline queue under the
\* filters of the stored subscriptions of QoS 1 or 2, and under no other
\* filter.
C26_TerminateRegistersOffline ==
    [][\A c \in Clients : TerminateStep(c) =>
          LET s == ctxSession[c]
          IN  /\ currentClient'[s] = None
              /\ IF ctxClean[c]
                 THEN /\ subscriptions'[s] = {}
                      /\ missed'[s] = <<>>
                      /\ outgoing'[s] = <<>> /\ incoming'[s] = {}
                      /\ offlineQueue' = offlineQueue
                 ELSE /\ subscriptions'[s] = subscriptions[s]
                      /\ missed'[s] = missed[s]
                      /\ outgoing'[s] = outgoing[s] /\ incoming'[s] = incoming[s]
                      /\ offlineQueue' = offlineQueue \cup
                            {<<f, s>> : f \in {g \in Filters :
                                \E sub \in subscriptions[s] : sub.topic = g /\ sub.qos >= 1}}
      ]_vars

\* C26 witness: a client that connected without CleanSession subscribed to one
\* filter at QoS 1 and to another at QoS 0 and was terminated: its session is
\* in the offline queue under the first filter only.
C26_Witness ==
    \E c \in Clients :
        /\ state[c] = "done" /\ ~ctxClean[c]
        /\ ctxSession[c] \in IDs
        /\ evicted = {}
        /\ currentClient[ctxSession[c]] = None
        /\ subscriptions[ctxSession[c]] = {[topic |-> <<"#">>, qos |-> 1],
                                           [topic |-> <<"foo", "+">>, qos |-> 0]}
        /\ offlineQueue = {<<<<"#">>, ctxSession[c]>>}


\* C27: a Setup with an empty client id binds the client to a new, empty
\* session that no other client is bound to and reports that nothing was
\* resumed; it leaves the registry, the current client of every session and
\* the offline queue as they were and closes no client; and no Setup ever
\* resumes a session that was made for a client without id.
C27_AnonymousSessionNotStored ==
    [][\A c \in Clients :
          /\ (ConnectStep(c) /\ clientID'[c] = Anonymous) =>
                /\ ~resumed'[c] /\ ~sessionPresent'[c]
                /\ sessions' = sessions
                /\ currentClient' = currentClient
                /\ offlineQueue' = offlineQueue
                /\ ctxSession'[c] \notin sessions'
                /\ subscriptions'[ctxSession'[c]] = {}
                /\ missed'[ctxSession'[c]] = <<>>
                /\ outgoing'[ctxSession'[c]] = <<>>
                /\ \A x \in Clients \ {c} :
                      state'[x] = state[x] /\ ctxSession'[x] # ctxSession'[c]
          /\ (ConnectStep(c) /\ resumed'[c]) =>
                \A x \in Clients \ {c} :
                   (state[x] # "new" /\ clientID[x] = Anonymous)
                      => ctxSession'[c] # ctxSession[x]
      ]_vars

\* C27 witness: a client without id subscribed; a second client without id
\* connected after it and has a session of its own, without subscriptions,
\* while the first one is still connected and nothing is stored.
C27_Witness ==
    \E c, x \in Clients :
        /\ c # x
        /\ state[c] = "connected" /\ clientID[c] = Anonymous
        /\ state[x] = "connected" /\ clientID[x] = Anonymous
        /\ SessionSubs(c) # {} /\ SessionSubs(x) = {}
        /\ ctxSession[c] # ctxSession[x]
        /\ sessions = {}


\* C28: a DISCONNECT closes the connection and clears its Will without
\* publishing anything; a closed connection without Will never gets one back
\* and no step publishes a Will for it, while Backend.Terminate can run for it
\* as soon as no Publish of its own is under way.
C28_DisconnectClearsWill ==
    [][\A c \in Clients :
          /\ Disconnect(c) =>
                will'[c] = <<>> /\ state'[c] = "closed" /\ pubs' = pubs
          /\ (state[c] = "closed" /\ will[c] = <<>>) =>
                /\ will'[c] = <<>>
                /\ ~PublishWill(c)
                /\ state'[c] \in {"closed", "done"}
          /\ (state[c] = "closed" /\ will[c] = <<>> /\ pending[c] = <<>>) =>
                ENABLED Terminate(c)
      ]_vars

\* C28 witness: the only message ever made was the Will of a client that was
\* neither taken over nor left connected; that client has been terminated, and
\* a client subscribed to every topic was handed nothing.
C28_Witness ==
    \E c, x \in Clients :
        /\ c # x
        /\ state[c] = "done" /\ c \notin evicted
        /\ state[x] = "connected" /\ will[x] = <<>>
        /\ <<<<"#">>, x>> \in queue
        /\ created = 1 /\ pubs = <<>>
        /\ inbox[x] = <<>>


\* C29: a session that a connected client is bound to is at no position of
\* the offline queue, and no Publish appends to its missed queue.
C29_OnlineSessionNotOffline ==
    [][\A id \in IDs :
          (\E c \in Clients : state[c] = "connected" /\ ctxSession[c] = id) =>
             /\ \A e \in offlineQueue : e[2] # id
             /\ \A x \in Peers : PublishDone(x) => missed'[id] = missed[id]
      ]_vars


\* C30: when Terminate runs for a client whose session has since been
\* attached to another client, that client stays the session's current client
\* and the session keeps its subscriptions, its queued messages and its
\* unacknowledged packets.
C30_EvictedTerminateKeepsOwner ==
    [][\A c \in Clients :
          LET s == ctxSession[c]
          IN  (TerminateStep(c) /\ currentClient[s] \in Clients \ {c}) =>
                 /\ currentClient'[s] = currentClient[s]
                 /\ subscriptions'[s] = subscriptions[s]
                 /\ missed'[s] = missed[s]
                 /\ outgoing'[s] = outgoing[s]
                 /\ incoming'[s] = incoming[s]
      ]_vars


\* C31: when a Backend.Publish that was under way before any client connected
\* ends, each stored session that holds, unchanged since before the Publish
\* began, a subscription of QoS 1 or 2 matching the topic has got the message:
\* the Publish appends it to the session's missed queue or has handed it to a
\* client bound to the session.
C31_NoMessageLost ==
    [][(PublishDone(Publisher) /\ pending[Publisher][1].n = 1) =>
          \A id \in sessions :
             (/\ subscribed = 0
              /\ \E sub \in subscriptions[id] :
                    sub.qos >= 1 /\ TopicMatches(sub.topic, pending[Publisher][1].topic))
             => \/ missed'[id] = Append(missed[id], pending[Publisher][1])
                \/ \E c \in Clients : \E i \in 1..Len(inbox[c]) :
                      ctxSession[c] = id /\ inbox[c][i].n = 1
      ]_vars


\* C32: the step that ends a Backend.Publish appends the message at most once
\* to the missed queue of a session, and not at all when the Publish has
\* handed the message to a client bound to the session; stated for the runs
\* in which no client has been taken over.
C32_SessionHandledOnce ==
    [][\A x \in Peers : (PublishDone(x) /\ evicted = {}) =>
          \A id \in IDs :
             /\ Len(missed'[id]) <= Len(missed[id]) + 1
             /\ Len(missed'[id]) > Len(missed[id]) =>
                   \A c \in Clients : \A i \in 1..Len(inbox[c]) :
                      ctxSession[c] = id => inbox[c][i].n # pending[x][1].n
      ]_vars


\* C33: the goroutine of a Setup hands the messages it drains from the missed
\* queue to a client that is connected and bound to the session; stated for
\* the clients that have not been taken over.
C33_ReplayToAttachedClient ==
    [][\A s \in IDs, c \in Clients :
          (Replay(s, c) /\ missed[s] # <<>> /\ c \notin evicted) =>
             state[c] = "connected" /\ ctxSession[c] = s
      ]_vars

====
